---- MODULE Spec2Model ----
(***************************************************************************)
(* The ESG metrics dashboard of src/app.py as a state machine.             *)
(*                                                                         *)
(* One render pass is one run of main(): load_data and                     *)
(* calculate_statistics (both memoized by st.cache_data), the header and   *)
(* metric cards, the ranking chart, the correlation scatter with its trend *)
(* line, the searchable table and the CSV download.  A pass is modelled as *)
(* a sequence of steps in script order (pc); an uncaught exception or      *)
(* main's early return ends the pass.                                      *)
(*                                                                         *)
(* Encoding.  A cell of the table is <<>> when it is missing (NaN) and     *)
(* <<v>> when it holds v.  A company name is a non-empty sequence of       *)
(* one-character strings, or <<>> when it is missing.  A rational p/q is   *)
(* the pair <<p, q>>.  The column names of the source are not ASCII; the   *)
(* four score columns are written overall_score, environmental_score,      *)
(* social_score, governance_score and the name column is company_name.     *)
(***************************************************************************)
EXTENDS Integers, Sequences, FiniteSets, TLC

VARIABLES
    file,         \* data.csv on disk: <<>> (absent) or <<text>>
    load_cache,   \* st.cache_data store of load_data: <<>> or <<df>>
    stats_cache,  \* st.cache_data store of calculate_statistics: {[key, value]}
    session,      \* widget values: ranking_score, scatter_score, financial_metric, search
    pc,           \* position of main(): idle, load, ranking, scatter, table
    df,           \* main's local df: <<>> or <<dataset>>
    stats,        \* main's local stats: <<>> or <<statistics>>
    page          \* what the current pass has rendered so far

vars == <<file, load_cache, stats_cache, session, pc, df, stats, page>>

---------------------------------------------------------------------------
(* Bounds of the model *)

MaxRows == 5        \* rows of a dataset in the statistics checks
MaxScore == 2       \* scores range over 1..MaxScore in the statistics checks
MaxRankRows == 3    \* rows of a dataset in the ranking checks
MaxLimit == 2       \* ranking limits 1..MaxLimit are tried beside the program's
MaxCorrRows == 3    \* rows of a dataset in the correlation checks
MaxValue == 2       \* cells range over 1..MaxValue in the ranking and correlation checks
MaxTableRows == 3   \* rows of a dataset in the table and download checks

---------------------------------------------------------------------------
(* Columns and cells *)

NaN == <<>>

isna(x) == x = NaN

NAME == "company_name"

score_columns == <<"overall_score", "environmental_score", "social_score", "governance_score">>

score_options == {score_columns[i] : i \in 1..Len(score_columns)}

financial_metrics == {"PE Ratio (TTM)", "Price/Book", "Enterprise Value/EBITDA"}

columns == <<NAME, "overall_score", "environmental_score", "social_score", "governance_score",
             "PE Ratio (TTM)", "Price/Book", "Enterprise Value/EBITDA">>

numeric_columns == score_options \cup financial_metrics

Range(s) == {s[i] : i \in DOMAIN s}

Min2(a, b) == IF a <= b THEN a ELSE b

Head_n(s, n) == SubSeq(s, 1, Min2(n, Len(s)))

tail(s, n) == SubSeq(s, Len(s) - Min2(n, Len(s)) + 1, Len(s))

Series(d, col) == [i \in 1..Len(d) |-> d[i].val[col]]

take(d, idx) == [k \in 1..Len(idx) |-> d[idx[k]]]

---------------------------------------------------------------------------
(* Sorting, as the dataframe library sorts *)

\* argsort(kind="mergesort"): the stable ascending order of the positions of keys.
RECURSIVE argsort_from(_, _)
argsort_from(keys, rem) ==
    IF rem = {} THEN <<>>
    ELSE LET m == CHOOSE i \in rem :
                      \A j \in rem : keys[i] < keys[j] \/ (keys[i] = keys[j] /\ i <= j)
         IN <<m>> \o argsort_from(keys, rem \ {m})

argsort_mergesort(keys) == argsort_from(keys, DOMAIN keys)

\* argsort(kind="quicksort"), the default of sort_values: an ascending order of the
\* positions of keys; quicksort is not stable, so equal keys come in any order.
RECURSIVE ascending_orders(_, _)
ascending_orders(keys, rem) ==
    IF rem = {} THEN {<<>>}
    ELSE UNION {{<<m>> \o o : o \in ascending_orders(keys, rem \ {m})} :
                    m \in {i \in rem : \A j \in rem : keys[i] <= keys[j]}}

argsort_quicksort(keys) == ascending_orders(keys, DOMAIN keys)

\* The positions of the cells of a column that are present / missing, in row order.
notna_index(s) == SelectSeq([i \in 1..Len(s) |-> i], LAMBDA i : ~isna(s[i]))

isna_index(s) == SelectSeq([i \in 1..Len(s) |-> i], LAMBDA i : isna(s[i]))

---------------------------------------------------------------------------
(* calculate_statistics *)

RECURSIVE nansum(_)
nansum(s) ==
    IF s = <<>> THEN 0
    ELSE (IF isna(Head(s)) THEN 0 ELSE Head(s)[1]) + nansum(Tail(s))

\* Series.mean() over fillna(0): missing cells count as rows.
mean_fillna(s) == IF Len(s) = 0 THEN NaN ELSE <<nansum(s), Len(s)>>

\* Series.mean(): missing cells are skipped; NaN when no cell is present.
mean(s) ==
    LET count == Len(notna_index(s))
    IN IF count = 0 THEN NaN ELSE <<nansum(s), count>>

\* Series.median(): missing cells are skipped; the middle value, or the average of
\* the two middle values.
median(s) ==
    LET present == notna_index(s)
        keys == [k \in 1..Len(present) |-> s[present[k]][1]]
        order == argsort_mergesort(keys)
        n == Len(present)
    IN IF n = 0 THEN NaN
       ELSE IF n % 2 = 1 THEN <<keys[order[(n + 1) \div 2]], 1>>
       ELSE <<keys[order[n \div 2]] + keys[order[n \div 2 + 1]], 2>>

\* DataFrame.nsmallest(n, col) in place of nlargest.
nsmallest(n, d, col) ==
    LET s == Series(d, col)
        dropped == notna_index(s)
        arr == [k \in 1..Len(dropped) |-> s[dropped[k]][1]]
        inds == argsort_mergesort(arr)
    IN Head_n([k \in 1..Len(inds) |-> dropped[inds[k]]] \o isna_index(s), n)

\* DataFrame.nlargest(n, col, keep="last"): equal values in reverse row order.
nlargest_keep_last(n, d, col) ==
    LET s == Series(d, col)
        dropped == notna_index(s)
        m == Len(dropped)
        arr == [k \in 1..m |-> 0 - s[dropped[m + 1 - k]][1]]
        inds == argsort_mergesort(arr)
    IN Head_n([k \in 1..Len(inds) |-> dropped[m + 1 - inds[k]]] \o isna_index(s), n)

\* DataFrame.nlargest(n, col), keep="first": the positions of the n rows with the
\* largest present values, descending, equal values in row order; rows whose cell
\* is missing follow in row order when fewer than n cells are present.
nlargest(n, d, col) ==
    LET s == Series(d, col)
        dropped == notna_index(s)
        nan_index == isna_index(s)
        arr == [k \in 1..Len(dropped) |-> 0 - s[dropped[k]][1]]
        inds == argsort_mergesort(arr)
    IN Head_n([k \in 1..Len(inds) |-> dropped[inds[k]]] \o nan_index, n)

TOP_N == 3

\* A file with a header and no rows is read with columns of dtype object, on which
\* nlargest raises TypeError.
object_dtype(d) == Len(d) = 0

calculate_statistics(d) ==
    [col \in score_options |->
        [avg |-> mean(Series(d, col)),
         median |-> median(Series(d, col)),
         top |-> [k \in 1..Len(nlargest(TOP_N, d, col)) |->
                      d[nlargest(TOP_N, d, col)[k]].name]]]

\* st.cache_data around calculate_statistics: the stored value for an equal
\* dataframe, else the computed one, which is then stored.
cached_statistics(d) ==
    IF \E e \in stats_cache : e.key = d
    THEN (CHOOSE e \in stats_cache : e.key = d).value
    ELSE calculate_statistics(d)

---------------------------------------------------------------------------
(* CSV text: a sequence of characters.  A column name of the header is one
   character of the text; it holds no comma, quote or line break. *)

BOM == "BOM"
COMMA == ","
QUOTE == "\""
NEWLINE == "\n"

digits == <<"0", "1", "2", "3", "4", "5", "6", "7", "8", "9">>

\* str(v) of a number v >= 0
RECURSIVE format_number(_)
format_number(v) ==
    IF v < 10 THEN <<digits[v + 1]>>
    ELSE format_number(v \div 10) \o <<digits[(v % 10) + 1]>>

digit_value(c) == (CHOOSE k \in 1..10 : digits[k] = c) - 1

is_number(f) == f # <<>> /\ \A k \in 1..Len(f) : f[k] \in Range(digits)

RECURSIVE parse_number(_)
parse_number(f) ==
    IF Len(f) = 1 THEN digit_value(f[1])
    ELSE 10 * parse_number(SubSeq(f, 1, Len(f) - 1)) + digit_value(f[Len(f)])

RECURSIVE join(_, _)
join(fields, sep) ==
    IF fields = <<>> THEN <<>>
    ELSE IF Len(fields) = 1 THEN fields[1]
    ELSE fields[1] \o <<sep>> \o join(Tail(fields), sep)

RECURSIVE concat(_)
concat(seqs) == IF seqs = <<>> THEN <<>> ELSE Head(seqs) \o concat(Tail(seqs))

\* csv.QUOTE_MINIMAL: a field holding the delimiter, the quote character or a line
\* break is written inside quotes, its quotes doubled.
RECURSIVE escape_quotes(_)
escape_quotes(f) ==
    IF f = <<>> THEN <<>>
    ELSE (IF Head(f) = QUOTE THEN <<QUOTE, QUOTE>> ELSE <<Head(f)>>) \o escape_quotes(Tail(f))

\* csv.QUOTE_NONE: no field is quoted.
write_field_unquoted(f) == f

needs_quoting(f) == \E k \in 1..Len(f) : f[k] \in {COMMA, QUOTE, NEWLINE}

write_field(f) ==
    IF needs_quoting(f) THEN <<QUOTE>> \o escape_quotes(f) \o <<QUOTE>> ELSE f

\* A missing cell is written as the empty field (na_rep='').
format_cell(r, col) ==
    IF col = NAME THEN write_field(r.name)
    ELSE IF isna(r.val[col]) THEN <<>>
    ELSE write_field(format_number(r.val[col][1]))

write_row(r) == join([k \in 1..Len(columns) |-> format_cell(r, columns[k])], COMMA) \o <<NEWLINE>>

\* DataFrame.to_csv(index=False): the header line, then one line per row.
to_csv(d) ==
    join([k \in 1..Len(columns) |-> <<columns[k]>>], COMMA) \o <<NEWLINE>>
    \o concat([i \in 1..Len(d) |-> write_row(d[i])])

\* str.encode('utf-8-sig'): the byte-order mark, then the text.
encode_utf_8_sig(text) == <<BOM>> \o text

\* The tokenizer of read_csv: the pieces of text between its separators c.  A
\* delimiter or a line break separates only outside a quoted field, that is, after
\* an even number of quote characters.
split(text, c) ==
    LET positions == [i \in 1..Len(text) |-> i]
        quotes == Range(SelectSeq(positions, LAMBDA i : text[i] = QUOTE))
        seps == SelectSeq(positions,
                    LAMBDA i : text[i] = c /\ Cardinality({k \in quotes : k < i}) % 2 = 0)
    IN [k \in 1..(Len(seps) + 1) |->
           SubSeq(text,
                  IF k = 1 THEN 1 ELSE seps[k - 1] + 1,
                  IF k <= Len(seps) THEN seps[k] - 1 ELSE Len(text))]

\* The lines of the text; the line break that ends the text opens no further line.
split_lines(text) ==
    LET pieces == split(text, NEWLINE)
    IN IF pieces[Len(pieces)] = <<>> THEN SubSeq(pieces, 1, Len(pieces) - 1) ELSE pieces

\* The text of a field: a quoted field loses its quotes, and of every doubled quote
\* inside it the second is kept.
unquote(f) ==
    IF f # <<>> /\ f[1] = QUOTE
    THEN LET body == SubSeq(f, 2, Len(f) - 1)
             kept == SelectSeq([k \in 1..Len(body) |-> k],
                         LAMBDA k : body[k] # QUOTE
                                    \/ Cardinality({j \in 1..k : body[j] = QUOTE}) % 2 = 0)
         IN [k \in 1..Len(kept) |-> body[kept[k]]]
    ELSE f

tokenize(text) ==
    LET lines == split_lines(text)
    IN [i \in 1..Len(lines) |->
           [k \in 1..Len(split(lines[i], COMMA)) |-> unquote(split(lines[i], COMMA)[k])]]

\* The cell of a field: the empty field is a missing cell; a field of a numeric
\* column is the number it spells; a name is kept as text.
parse_cell(f, col) ==
    IF f = <<>> THEN NaN
    ELSE IF col = NAME THEN f
    ELSE <<parse_number(f)>>

strip_bom(text) == IF text # <<>> /\ text[1] = BOM THEN Tail(text) ELSE text

\* The text is one read_csv reads as the table of the dashboard: the header names
\* every column, every line has as many fields as the header, and every field of
\* a numeric column is empty or a number.
well_formed(text) ==
    LET lines == tokenize(strip_bom(text))
    IN /\ Len(lines) >= 1
       /\ \A k \in 1..Len(columns) : \E h \in 1..Len(lines[1]) : lines[1][h] = <<columns[k]>>
       /\ \A i \in 1..Len(lines) : Len(lines[i]) = Len(lines[1])
       /\ \A i \in 2..Len(lines) : \A h \in 1..Len(lines[1]) :
              lines[1][h] = <<NAME>> \/ lines[i][h] = <<>> \/ is_number(lines[i][h])

\* pd.read_csv: a leading byte-order mark is skipped, the first line is the header,
\* every other line a row whose cells are found by the header's column names.
read_csv(text) ==
    LET lines == tokenize(strip_bom(text))
        header == [k \in 1..Len(lines[1]) |-> lines[1][k][1]]
        pos(col) == CHOOSE k \in 1..Len(header) : header[k] = col
    IN [i \in 1..(Len(lines) - 1) |->
           [name |-> parse_cell(lines[i + 1][pos(NAME)], NAME),
            val |-> [col \in numeric_columns |-> parse_cell(lines[i + 1][pos(col)], col)]]]

---------------------------------------------------------------------------
(* The ranking chart *)

TAIL_N == 15

\* DataFrame.sort_values(by=col, ascending=True): the possible orders of the rows:
\* present cells ascending (default kind, quicksort), missing cells last in row order.
sort_values(d, col) ==
    LET s == Series(d, col)
        present == notna_index(s)
        keys == [k \in 1..Len(present) |-> s[present[k]][1]]
    IN {[k \in 1..Len(p) |-> present[p[k]]] \o isna_index(s) : p \in argsort_quicksort(keys)}

---------------------------------------------------------------------------
(* The correlation scatter and its trend line *)

RECURSIVE sum_over(_, _)
sum_over(s, k) == IF k > Len(s) THEN 0 ELSE s[k] + sum_over(s, k + 1)

\* The moments of the rows idx of the columns a and b, all cells present:
\* n*Sxy - Sx*Sy, n*Sxx - Sx^2, n*Syy - Sy^2 and Sy*Sxx - Sx*Sxy.
moments(d, idx, a, b) ==
    LET x(i) == d[i].val[a][1]
        y(i) == d[i].val[b][1]
        xx(i) == x(i) * x(i)
        yy(i) == y(i) * y(i)
        xy(i) == x(i) * y(i)
        n == Len(idx)
        Sx == sum_over([k \in 1..n |-> x(idx[k])], 1)
        Sy == sum_over([k \in 1..n |-> y(idx[k])], 1)
        Sxx == sum_over([k \in 1..n |-> xx(idx[k])], 1)
        Syy == sum_over([k \in 1..n |-> yy(idx[k])], 1)
        Sxy == sum_over([k \in 1..n |-> xy(idx[k])], 1)
    IN [cov |-> n * Sxy - Sx * Sy,
        varx |-> n * Sxx - Sx * Sx,
        vary |-> n * Syy - Sy * Sy,
        icpt |-> Sy * Sxx - Sx * Sxy]

\* Series.corr(other): Pearson's coefficient over the rows where both cells are
\* present; NaN when it is undefined (no such row, one row, or no variance).
\* <<c, vx, vy>> stands for c / sqrt(vx * vy).
corr(d, a, b) ==
    LET valid == SelectSeq([i \in 1..Len(d) |-> i],
                           LAMBDA i : ~isna(d[i].val[a]) /\ ~isna(d[i].val[b]))
        m == moments(d, valid, a, b)
    IN IF Len(valid) = 0 \/ m.varx * m.vary = 0 THEN NaN
       ELSE <<m.cov, m.varx, m.vary>>

\* np.polyfit(df[a], df[b], 1) over every row of the two columns: its outcomes.
\* A missing x makes the design matrix NaN: the least-squares solver fails to
\* converge (LinAlgError) or returns NaN coefficients, by the build.  A missing y
\* alone makes every coefficient NaN.  With no variance in x the fit is rank
\* deficient and the minimum-norm line is returned.
polyfit(d, a, b) ==
    LET rows == [i \in 1..Len(d) |-> i]
        m == moments(d, rows, a, b)
    IN IF \E i \in 1..Len(d) : isna(d[i].val[a])
       THEN {[kind |-> "LinAlgError", slope |-> NaN, intercept |-> NaN],
             [kind |-> "nan", slope |-> NaN, intercept |-> NaN]}
       ELSE IF \E i \in 1..Len(d) : isna(d[i].val[b])
       THEN {[kind |-> "nan", slope |-> NaN, intercept |-> NaN]}
       ELSE IF m.varx = 0
       THEN {[kind |-> "rank_deficient", slope |-> NaN, intercept |-> NaN]}
       ELSE {[kind |-> "fit", slope |-> <<m.cov, m.varx>>, intercept |-> <<m.icpt, m.varx>>]}

---------------------------------------------------------------------------
(* The table search *)

lower(c) == CASE c = "A" -> "a" [] c = "B" -> "b" [] c = "C" -> "c" [] OTHER -> c

\* One character of a pattern against one character of a name, re.IGNORECASE:
\* "." matches any character but a line break, any other character of the
\* patterns drawn here matches itself.
match_char(p, c) == IF p = "." THEN c # NEWLINE ELSE lower(p) = lower(c)

match_at(pat, name, k) ==
    /\ k + Len(pat) - 1 <= Len(name)
    /\ \A j \in 1..Len(pat) : match_char(pat[j], name[k + j - 1])

\* Series.str.contains(pat, case=False), regex=True by default: re.search.
str_contains(name, pat) == \E k \in 1..Len(name) : match_at(pat, name, k)

---------------------------------------------------------------------------
(* The page and the widgets *)

BlankPage ==
    [error |-> FALSE,     \* st.error: the missing-file message
     exception |-> <<>>,  \* the uncaught exception that ended the pass
     cards |-> <<>>,      \* the four metric cards: the averages
     ranking |-> <<>>,    \* the ranking chart: the limit and the rows, bottom to top
     scatter |-> <<>>,    \* the scatter chart: the coefficient and the trend line
     table |-> <<>>,      \* the data table: the filtered rows
     download |-> <<>>]   \* the download button: the bytes of esg_data.csv

\* The first option of every selectbox and the empty search box.
DefaultSession ==
    [ranking_score |-> score_columns[1],
     scatter_score |-> score_columns[1],
     financial_metric |-> "PE Ratio (TTM)",
     search |-> <<>>]

cards_of(st) == [col \in score_options |-> st[col].avg]

---------------------------------------------------------------------------
(* main(), step by step *)

\* load_data raises FileNotFoundError: nothing is stored for load_data, main shows
\* the message and returns.
MainFileNotFound ==
    /\ pc = "load"
    /\ load_cache = <<>>
    /\ file = <<>>
    /\ page' = [page EXCEPT !.error = TRUE]
    /\ pc' = "idle"
    /\ UNCHANGED <<file, load_cache, stats_cache, session, df, stats>>

\* @st.cache_data load_data(): the stored dataframe when there is one, else the
\* file as read, which is then stored.
load_data == IF load_cache # <<>> THEN load_cache[1] ELSE read_csv(file[1])

\* load_data returns; calculate_statistics raises TypeError on a dataframe without
\* rows, which main does not catch.
MainTypeError ==
    /\ pc = "load"
    /\ load_cache # <<>> \/ file # <<>>
    /\ object_dtype(load_data)
    /\ load_cache' = <<load_data>>
    /\ df' = <<load_data>>
    /\ page' = [page EXCEPT !.exception = <<"TypeError">>]
    /\ pc' = "idle"
    /\ UNCHANGED <<file, stats_cache, session, stats>>

\* load_data and calculate_statistics return; the header and the metric cards.
MainLoad ==
    /\ pc = "load"
    /\ load_cache # <<>> \/ file # <<>>
    /\ ~object_dtype(load_data)
    /\ load_cache' = <<load_data>>
    /\ df' = <<load_data>>
    /\ stats' = <<cached_statistics(load_data)>>
    /\ stats_cache' = stats_cache \cup {[key |-> load_data, value |-> cached_statistics(load_data)]}
    /\ page' = [page EXCEPT !.cards = <<cards_of(cached_statistics(load_data))>>]
    /\ pc' = "ranking"
    /\ UNCHANGED <<file, session>>

\* The ranking chart after df.sort_values(..., inplace=True): df itself is sorted.
MainRanking_inplace(limit) ==
    /\ pc = "ranking"
    /\ \E order \in sort_values(df[1], session.ranking_score) :
           /\ df' = <<take(df[1], order)>>
           /\ page' = [page EXCEPT !.ranking =
                          <<[limit |-> limit, rows |-> take(df[1], tail(order, limit))]>>]
    /\ pc' = "scatter"
    /\ UNCHANGED <<file, load_cache, stats_cache, session, stats>>

\* The ranking chart: the last limit rows of the dataframe sorted by the selected score.
MainRanking(limit) ==
    /\ pc = "ranking"
    /\ \E order \in sort_values(df[1], session.ranking_score) :
           page' = [page EXCEPT !.ranking =
                        <<[limit |-> limit, rows |-> take(df[1], tail(order, limit))]>>]
    /\ pc' = "scatter"
    /\ UNCHANGED <<file, load_cache, stats_cache, session, df, stats>>

\* The scatter chart: polyfit raises and ends the pass before the chart is shown.
MainScatterError ==
    /\ pc = "scatter"
    /\ \E fit \in polyfit(df[1], session.scatter_score, session.financial_metric) :
           /\ fit.kind = "LinAlgError"
           /\ page' = [page EXCEPT !.exception = <<fit.kind>>]
    /\ pc' = "idle"
    /\ UNCHANGED <<file, load_cache, stats_cache, session, df, stats>>

\* The scatter chart, titled with the coefficient and overlaid with the trend line.
MainScatter ==
    /\ pc = "scatter"
    /\ \E fit \in polyfit(df[1], session.scatter_score, session.financial_metric) :
           /\ fit.kind # "LinAlgError"
           /\ page' = [page EXCEPT !.scatter =
                  <<[correlation |-> corr(df[1], session.scatter_score, session.financial_metric),
                     trend |-> fit]>>]
    /\ pc' = "table"
    /\ UNCHANGED <<file, load_cache, stats_cache, session, df, stats>>

\* The table with a search and a name column that has a missing cell: str.contains
\* yields a mask with NA, which cannot index the dataframe (ValueError); a name
\* column with only missing cells has no .str accessor (AttributeError).
MainTableError ==
    /\ pc = "table"
    /\ session.search # <<>>
    /\ \E i \in 1..Len(df[1]) : isna(df[1][i].name)
    /\ page' = [page EXCEPT !.exception =
                    IF \A i \in 1..Len(df[1]) : isna(df[1][i].name)
                    THEN <<"AttributeError">> ELSE <<"ValueError">>]
    /\ pc' = "idle"
    /\ UNCHANGED <<file, load_cache, stats_cache, session, df, stats>>

\* filtered_df: the rows whose name the search matches, or df for the empty search.
filtered_df(d, search) ==
    IF search # <<>> THEN SelectSeq(d, LAMBDA r : str_contains(r.name, search)) ELSE d

\* The table and the download button.
MainTable ==
    /\ pc = "table"
    /\ session.search = <<>> \/ \A i \in 1..Len(df[1]) : ~isna(df[1][i].name)
    /\ page' = [page EXCEPT
                    !.table = <<filtered_df(df[1], session.search)>>,
                    !.download = <<encode_utf_8_sig(to_csv(filtered_df(df[1], session.search)))>>]
    /\ pc' = "idle"
    /\ UNCHANGED <<file, load_cache, stats_cache, session, df, stats>>

---------------------------------------------------------------------------
(* The user and the file system *)

PassQueries == {<<>>, <<"a">>}

Sessions ==
    [ranking_score : score_options, scatter_score : score_options,
     financial_metric : financial_metrics, search : PassQueries]

\* The user changes one widget (or reloads the page): the script runs again.
Rerun ==
    /\ pc = "idle"
    /\ \E s \in Sessions :
           /\ Cardinality({w \in DOMAIN s : s[w] # session[w]}) <= 1
           /\ session' = s
    /\ pc' = "load"
    /\ df' = <<>>
    /\ stats' = <<>>
    /\ page' = BlankPage
    /\ UNCHANGED <<file, load_cache, stats_cache>>

\* A row whose cell of score column c0 is v and of financial column f0 is w; every
\* other cell is 1.
MkRow(name, c0, v, f0, w) ==
    [name |-> name,
     val |-> [col \in numeric_columns |->
                  IF col = c0 THEN v ELSE IF col = f0 THEN w ELSE <<1>>]]

PassDatasets ==
    LET rA == MkRow(<<"a">>, "overall_score", <<2>>, "PE Ratio (TTM)", <<1>>)
        rB == MkRow(NaN, "overall_score", NaN, "PE Ratio (TTM)", NaN)
        rC == MkRow(<<"A", "b">>, "overall_score", <<1>>, "PE Ratio (TTM)", <<2>>)
    IN {<<>>, <<rA>>, <<rA, rC>>, <<rC, rB>>}

\* data.csv is replaced between two passes.
WriteFile ==
    /\ pc = "idle"
    /\ \E d \in PassDatasets :
           /\ file # <<to_csv(d)>>
           /\ file' = <<to_csv(d)>>
    /\ UNCHANGED <<load_cache, stats_cache, session, pc, df, stats, page>>

\* data.csv is removed between two passes.
RemoveFile ==
    /\ pc = "idle"
    /\ file # <<>>
    /\ file' = <<>>
    /\ UNCHANGED <<load_cache, stats_cache, session, pc, df, stats, page>>

---------------------------------------------------------------------------
(* The dashboard: any file, any sequence of passes *)

Init ==
    /\ file \in {<<>>} \cup {<<to_csv(d)>> : d \in PassDatasets}
    /\ load_cache = <<>>
    /\ stats_cache = {}
    /\ session = DefaultSession
    /\ pc = "load"
    /\ df = <<>>
    /\ stats = <<>>
    /\ page = BlankPage

Next ==
    \/ Rerun
    \/ WriteFile
    \/ RemoveFile
    \/ MainFileNotFound
    \/ MainTypeError
    \/ MainLoad
    \/ MainRanking(TAIL_N)
    \/ MainScatterError
    \/ MainScatter
    \/ MainTableError
    \/ MainTable

Spec == Init /\ [][Next]_vars

---------------------------------------------------------------------------
(* Datasets of the function checks.  Row i is named by the i-th letter, so that
   a name identifies its row; one score column and one financial column vary. *)

letters == <<"a", "b", "c", "d", "e", "f", "g", "h">>

Cells(max) == {NaN} \cup {<<v>> : v \in 1..max}

Dataset(n, c0, xs, f0, ys) ==
    [i \in 1..n |-> MkRow(<<letters[i]>>, c0, xs[i], f0, ys[i])]

\* The state of main() after MainLoad on dataset d with widget values s.
AfterLoad(d, s) ==
    /\ file = <<to_csv(d)>>
    /\ load_cache = <<d>>
    /\ stats_cache = {[key |-> d, value |-> calculate_statistics(d)]}
    /\ session = s
    /\ df = <<d>>
    /\ stats = <<calculate_statistics(d)>>

\* A page main() can show after the ranking step, and after the scatter step.
RankingPage(d, s) ==
    [BlankPage EXCEPT
        !.cards = <<cards_of(calculate_statistics(d))>>,
        !.ranking = <<[limit |-> TAIL_N,
                       rows |-> take(d, tail(CHOOSE o \in sort_values(d, s.ranking_score) : TRUE,
                                             TAIL_N))]>>]

ScatterPage(d, s) ==
    [RankingPage(d, s) EXCEPT
        !.scatter = <<[correlation |-> corr(d, s.scatter_score, s.financial_metric),
                       trend |-> CHOOSE fit \in polyfit(d, s.scatter_score, s.financial_metric) :
                                     fit.kind # "LinAlgError"]>>]

(* calculate_statistics on every small dataset: the first pass of a session *)

InitStats ==
    /\ \/ file = <<>>
       \/ \E n \in 0..MaxRows, c0 \in score_options :
              \E xs \in [1..n -> Cells(MaxScore)] :
                  file = <<to_csv(Dataset(n, c0, xs, "PE Ratio (TTM)", [i \in 1..n |-> <<1>>]))>>
    /\ load_cache = <<>>
    /\ stats_cache = {}
    /\ session = DefaultSession
    /\ pc = "load"
    /\ df = <<>>
    /\ stats = <<>>
    /\ page = BlankPage

NextStats == MainFileNotFound \/ MainTypeError \/ MainLoad

SpecStats == InitStats /\ [][NextStats]_vars

(* The ranking of every small dataset, for the program's limit and small ones *)

Limits == (1..MaxLimit) \cup {TAIL_N}

InitRank ==
    /\ \E n \in 1..MaxRankRows, c0 \in score_options :
           \E xs \in [1..n -> Cells(MaxValue)] :
               LET d == Dataset(n, c0, xs, "PE Ratio (TTM)", [i \in 1..n |-> <<1>>])
               IN /\ AfterLoad(d, [DefaultSession EXCEPT !.ranking_score = c0])
                  /\ page = [BlankPage EXCEPT !.cards = <<cards_of(calculate_statistics(d))>>]
    /\ pc = "ranking"

NextRank == \E limit \in Limits : MainRanking(limit)

SpecRank == InitRank /\ [][NextRank]_vars

(* The correlation and trend of every small dataset *)

InitCorr ==
    /\ \E n \in 1..MaxCorrRows, c0 \in score_options, f0 \in financial_metrics :
           \E xs \in [1..n -> Cells(MaxValue)], ys \in [1..n -> Cells(MaxValue)] :
               LET d == Dataset(n, c0, xs, f0, ys)
                   s == [DefaultSession EXCEPT !.scatter_score = c0, !.financial_metric = f0]
               IN /\ AfterLoad(d, s)
                  /\ page = RankingPage(d, s)
    /\ pc = "scatter"

NextCorr == MainScatterError \/ MainScatter

SpecCorr == InitCorr /\ [][NextCorr]_vars

(* The table and the download of every small dataset and search *)

TableQueries ==
    {<<>>, <<"a">>, <<"C", "B">>, <<"c", ".", "b">>, <<".">>, <<COMMA>>, <<QUOTE>>}

TableRows ==
    {MkRow(NaN, "overall_score", <<1>>, "Price/Book", <<2>>),
     MkRow(<<"c", "b">>, "overall_score", NaN, "Price/Book", <<12>>),
     MkRow(<<"c", "A", "b">>, "overall_score", <<2>>, "Price/Book", NaN),
     MkRow(<<"c", ".", "b">>, "overall_score", NaN, "Price/Book", NaN),
     MkRow(<<"b", COMMA, "a">>, "overall_score", <<10>>, "Price/Book", <<1>>),
     MkRow(<<QUOTE, "a", QUOTE, "B">>, "overall_score", <<3>>, "Price/Book", NaN)}

InitTable ==
    /\ \E n \in 1..MaxTableRows, q \in TableQueries :
           \E d \in [1..n -> TableRows] :
               LET s == [DefaultSession EXCEPT !.search = q]
               IN /\ AfterLoad(d, s)
                  /\ page = ScatterPage(d, s)
    /\ pc = "table"

NextTable == MainTableError \/ MainTable

SpecTable == InitTable /\ [][NextTable]_vars

---------------------------------------------------------------------------
(* Properties of calculate_statistics (SpecStats) *)

\* The order of cells in which a missing cell is below every present one.
le(x, y) == isna(x) \/ (~isna(y) /\ x[1] <= y[1])

\* The lists of k distinct rows of a dataset of n rows.
IndexLists(n, k) == {idx \in [1..k -> 1..n] : \A p, q \in 1..k : p # q => idx[p] # idx[q]}

Min3(n) == IF n < 3 THEN n ELSE 3

\* C2: for every dataset and each of the four score columns, the top-3 list of
\* calculate_statistics names min(3, |D|) rows, in descending order of the score,
\* and every row left out has a score less than or equal to every listed one
\* (a missing score counting as the least).
C2_Top3 ==
    stats # <<>> =>
        \A col \in score_options :
            LET d == df[1]
                top == stats[1][col].top
                k == Min3(Len(d))
            IN /\ Len(top) = k
               /\ \E idx \in IndexLists(Len(d), k) :
                      /\ \A p \in 1..k : top[p] = d[idx[p]].name
                      /\ \A p, q \in 1..k : p < q => le(d[idx[q]].val[col], d[idx[p]].val[col])
                      /\ \A j \in (1..Len(d)) \ Range(idx) :
                             \A p \in 1..k : le(d[j].val[col], d[idx[p]].val[col])

\* A dataset of five rows whose list holds both scores, leaving out a row with a
\* present score and a row with a missing one.
C2_Witness ==
    /\ stats # <<>>
    /\ Len(df[1]) = 5
    /\ \E col \in score_options :
           LET d == df[1]
               top == Range(stats[1][col].top)
           IN /\ \E i, j \in 1..5 :
                     /\ d[i].name \notin top /\ isna(d[i].val[col])
                     /\ d[j].name \notin top /\ ~isna(d[j].val[col])
              /\ \E i, j \in 1..5 :
                     /\ d[i].name \in top /\ d[j].name \in top
                     /\ d[i].val[col] # d[j].val[col]

RECURSIVE SetSum(_, _, _)
SetSum(d, col, rows) ==
    IF rows = {} THEN 0
    ELSE LET i == CHOOSE i \in rows : TRUE
         IN d[i].val[col][1] + SetSum(d, col, rows \ {i})

\* C8: for every dataset and each of the four score columns, the average of
\* calculate_statistics is the sum of the present scores divided by their number
\* (and NaN when no score is present).
C8_Mean ==
    stats # <<>> =>
        \A col \in score_options :
            LET d == df[1]
                avg == stats[1][col].avg
                present == {i \in 1..Len(d) : ~isna(d[i].val[col])}
            IN IF present = {} THEN isna(avg)
               ELSE /\ ~isna(avg)
                    /\ avg[2] > 0
                    /\ avg[1] * Cardinality(present) = SetSum(d, col, present) * avg[2]

\* A column with missing and present scores, the present ones not all equal.
C8_Witness ==
    /\ stats # <<>>
    /\ \E col \in score_options :
           LET d == df[1]
               avg == stats[1][col].avg
           IN /\ \E i \in 1..Len(d) : isna(d[i].val[col])
              /\ \E i, j \in 1..Len(d) :
                     ~isna(d[i].val[col]) /\ ~isna(d[j].val[col]) /\ d[i].val[col] # d[j].val[col]
              /\ ~isna(avg)
              /\ page.cards = <<cards_of(stats[1])>>

---------------------------------------------------------------------------
(* Properties of the ranking (SpecRank) *)

\* C7: the ranking is the last min(limit, |D|) rows of a stable ascending sort:
\* it is ascending by the score, no row left out has a larger score than a row
\* shown, and rows with equal scores keep their row order.  (Only present scores
\* are compared.)
C7_StableRanking ==
    page.ranking # <<>> =>
        LET d == df[1]
            col == session.ranking_score
            r == page.ranking[1]
            k == Min2(r.limit, Len(d))
            lt(i, j) == ~isna(d[i].val[col]) /\ ~isna(d[j].val[col])
                        /\ d[i].val[col][1] < d[j].val[col][1]
            eq(i, j) == ~isna(d[i].val[col]) /\ d[i].val[col] = d[j].val[col]
        IN \E idx \in IndexLists(Len(d), k) :
               /\ r.rows = take(d, idx)
               /\ \A p, q \in 1..k : p < q => ~lt(idx[q], idx[p])
               /\ \A j \in (1..Len(d)) \ Range(idx) : \A p \in 1..k : ~lt(idx[p], j)
               /\ \A p, q \in 1..k : (p < q /\ eq(idx[p], idx[q])) => idx[p] < idx[q]

---------------------------------------------------------------------------
(* Properties of the correlation and the trend line (SpecCorr) *)

\* The rows in which both selected cells are present.
complete_rows(d, a, b) ==
    SelectSeq([i \in 1..Len(d) |-> i], LAMBDA i : ~isna(d[i].val[a]) /\ ~isna(d[i].val[b]))

\* C4: with fewer than 2 rows in which both selected values are present, the
\* scatter step ends the pass with an error (InsufficientData; here any error is
\* taken for it) and shows neither a coefficient nor a trend line.  Stated for the
\* datasets in which every selected score is present, where the outcome of polyfit
\* does not depend on the build.
C4_InsufficientData ==
    (/\ pc # "scatter"
     /\ \A i \in 1..Len(df[1]) : ~isna(df[1][i].val[session.scatter_score])
     /\ Len(complete_rows(df[1], session.scatter_score, session.financial_metric)) < 2) =>
        /\ page.exception # <<>>
        /\ page.scatter = <<>>

\* C5: the coefficient is Pearson's over exactly the rows in which both selected
\* values are present, and the trend line is the least-squares line of those same
\* rows.  Stated for the datasets in which every selected score is present and the
\* coefficient is defined, where the outcome of polyfit does not depend on the build.
C5_SameFilteredRows ==
    (/\ page.scatter # <<>>
     /\ \A i \in 1..Len(df[1]) : ~isna(df[1][i].val[session.scatter_score])
     /\ ~isna(page.scatter[1].correlation)) =>
        LET a == session.scatter_score
            b == session.financial_metric
            filtered == take(df[1], complete_rows(df[1], a, b))
        IN /\ page.scatter[1].correlation = corr(filtered, a, b)
           /\ page.scatter[1].trend \in polyfit(filtered, a, b)

---------------------------------------------------------------------------
(* Properties of the table and the download (SpecTable) *)

\* q occurs in name as a literal substring, ignoring case.
literal_contains(name, q) ==
    \E k \in 1..Len(name) :
        /\ k + Len(q) - 1 <= Len(name)
        /\ \A j \in 1..Len(q) : lower(q[j]) = lower(name[k + j - 1])

literal_search(d, q) ==
    IF q = <<>> THEN d ELSE SelectSeq(d, LAMBDA r : literal_contains(r.name, q))

\* C6: the table shows exactly the rows whose name contains the search as a
\* literal substring ignoring case, in row order; every row for the empty search;
\* and searching the shown rows again shows them again.  Stated for the datasets
\* in which every row has a name.
C6_LiteralSearch ==
    (pc = "idle" /\ \A i \in 1..Len(df[1]) : ~isna(df[1][i].name)) =>
        /\ page.table = <<literal_search(df[1], session.search)>>
        /\ session.search = <<>> => page.table = df
        /\ filtered_df(page.table[1], session.search) = page.table[1]

\* C9: esg_data.csv holds exactly the rows of the table shown, in order and with
\* the same cells: reading the download back gives the rows of the table.
C9_DownloadRoundTrip ==
    page.download # <<>> =>
        /\ page.table = <<filtered_df(df[1], session.search)>>
        /\ page.download[1][1] = BOM
        /\ Len(split_lines(Tail(page.download[1]))) = Len(page.table[1]) + 1
        /\ well_formed(page.download[1])
        /\ read_csv(page.download[1]) = page.table[1]

\* A search that leaves a row out and shows a name with a comma and a name with
\* quotes, beside missing cells and a number of two digits.
C9_Witness ==
    /\ page.download # <<>>
    /\ session.search # <<>>
    /\ Len(page.table[1]) = 2
    /\ Len(df[1]) = 3
    /\ \E i, j \in 1..2 :
           /\ COMMA \in Range(page.table[1][i].name)
           /\ page.table[1][i].val["overall_score"] = <<10>>
           /\ QUOTE \in Range(page.table[1][j].name)
           /\ isna(page.table[1][j].val["Price/Book"])

---------------------------------------------------------------------------
(* Properties of the render passes (Spec) *)

\* C1: in a pass in which data.csv does not exist, main shows the error message
\* and nothing else, whatever the earlier passes were.
C1_MissingFileError ==
    [][(pc = "load" /\ file = <<>> /\ pc' # "load") =>
           (pc' = "idle" /\ page' = [BlankPage EXCEPT !.error = TRUE])]_vars

====
